---- MODULE Spec2Model ----
(***************************************************************************)
(* Roof layout engine of the solar panel analyzer: RoofDetector            *)
(* (js/mapManager.js), PanelPlacer (js/panelPlacer.js) and StatsCalculator *)
(* (js/statsCalculator.js), driven by MapManager.handlePolygonComplete.    *)
(*                                                                         *)
(* Numbers.  The JavaScript numbers of the engine are modelled in fixed    *)
(* point:                                                                  *)
(*   - coordinates (degrees of latitude/longitude) and panel, spacing and  *)
(*     keepout dimensions (feet) are integers in units of 1/Scale.  The    *)
(*     code adds feet to degrees without conversion (panelPlacer.js:63),   *)
(*     so both share the one unit;                                         *)
(*   - dimensionless ratios (efficiency, sunExposure, positionFactor) are  *)
(*     integers in units of 1/Frac;                                        *)
(*   - power is in whole watts, angles in whole degrees.                   *)
(* TLC's integers are 32 bits wide and TLC stops with an error on          *)
(* overflow, so every product below is arranged to stay inside that range  *)
(* for the inputs of this model.                                           *)
(***************************************************************************)
EXTENDS Integers, Sequences, FiniteSets, TLC

\* One foot, or one degree, in model units; the ratio 1.0 in model units.
Scale == 1000 * 1000
Frac == 100 * 100

Abs(x) == IF x < 0 THEN 0 - x ELSE x
Min(a, b) == IF a < b THEN a ELSE b
Max(a, b) == IF a > b THEN a ELSE b

\* Math.floor(a / b) and Math.ceil(a / b) for b > 0 (\div rounds toward
\* minus infinity, as Math.floor does).
FloorDiv(a, b) == a \div b
CeilDiv(a, b) == 0 - ((0 - a) \div b)

RECURSIVE Gcd(_, _)
Gcd(a, b) == IF b = 0 THEN a ELSE Gcd(b, a % b)

\* Math.sqrt, rounded down to an integer (Newton's iteration).
RECURSIVE SqrtIter(_, _)
SqrtIter(n, r) ==
    LET s == (r + n \div r) \div 2
    IN IF s >= r THEN r ELSE SqrtIter(n, s)
Isqrt(n) == IF n <= 0 THEN 0 ELSE SqrtIter(n, n)

\* <<q, r>> with a * m = q * c + r and 0 <= r < c, for a, m >= 0 and
\* 0 < c; computed by doubling so that no intermediate value exceeds
\* 3 * c.
RECURSIVE MulDivMod(_, _, _)
MulDivMod(a, m, c) ==
    IF m = 0 THEN <<0, 0>>
    ELSE LET h == MulDivMod(a, m \div 2, c)
             add == IF m % 2 = 1 THEN a ELSE 0
             s == 2 * h[2] + (add % c)
         IN <<2 * h[1] + (add \div c) + (s \div c), s % c>>

\* Math.floor(a * m / c) for a, m >= 0 and c > 0 (0 for the other
\* arguments, which no caller passes).
FloorMulDiv(a, m, c) ==
    IF a >= 0 /\ m >= 0 /\ c > 0 THEN MulDivMod(a, m, c)[1] ELSE 0

\* Math.sqrt(dx*dx + dy*dy), rounded down; large arguments are divided by
\* a common factor first (relative error below 1/10000).
Hypot(dx, dy) ==
    LET m == Max(Abs(dx), Abs(dy))
        s == (m \div 30000) + 1
        x == Abs(dx) \div s
        y == Abs(dy) \div s
    IN Isqrt(x * x + y * y) * s

(***************************************************************************)
(* Geometry of PanelPlacer.  A point is [lat |-> _, lng |-> _].            *)
(***************************************************************************)

\* Math.max / Math.min folded over the coordinates, from the start values
\* of calculateRoofBounds (north = -90, south = 90, east = -180, west = 180).
RECURSIVE FoldBounds(_, _, _)
FoldBounds(coords, i, b) ==
    IF i > Len(coords) THEN b
    ELSE FoldBounds(coords, i + 1,
            [north |-> Max(b.north, coords[i].lat),
             south |-> Min(b.south, coords[i].lat),
             east  |-> Max(b.east, coords[i].lng),
             west  |-> Min(b.west, coords[i].lng)])

calculateRoofBounds(coords) ==
    FoldBounds(coords, 1,
        [north |-> (0 - 90) * Scale, south |-> 90 * Scale,
         east |-> (0 - 180) * Scale, west |-> 180 * Scale])

\* One edge (i, j) of the ray-casting loop of isPointInRoof: TRUE when the
\* edge toggles `inside`.  The code compares
\*     lng < (xj - xi) * (lat - yi) / (yj - yi) + xi ;
\* here both sides are multiplied by the positive number |yj - yi| / g,
\* g = gcd(|xj - xi|, |yj - yi|), which leaves the comparison unchanged.
EdgeCrosses(lng, lat, ci, cj) ==
    /\ (ci.lat > lat) # (cj.lat > lat)
    /\ LET dx == cj.lng - ci.lng
           dy == cj.lat - ci.lat
           g  == Gcd(Abs(dx), Abs(dy))
           rx == dx \div g
           ry == dy \div g
       IN IF ry > 0
          THEN (lng - ci.lng) * ry < rx * (lat - ci.lat)
          ELSE (lng - ci.lng) * ry > rx * (lat - ci.lat)

\* isPointInRoof: `inside` is toggled once per crossing edge, so it ends
\* TRUE exactly when the number of crossing edges is odd.
isPointInRoof(coords, lng, lat) ==
    LET n == Len(coords)
        prev(i) == IF i = 1 THEN n ELSE i - 1
        crossing == {i \in 1..n : EdgeCrosses(lng, lat, coords[i], coords[prev(i)])}
    IN Cardinality(crossing) % 2 = 1

calculatePanelCorners(specs, centerX, centerY) ==
    LET halfWidth == specs.width \div 2
        halfHeight == specs.height \div 2
    IN << [lng |-> centerX - halfWidth, lat |-> centerY + halfHeight],
          [lng |-> centerX + halfWidth, lat |-> centerY + halfHeight],
          [lng |-> centerX + halfWidth, lat |-> centerY - halfHeight],
          [lng |-> centerX - halfWidth, lat |-> centerY - halfHeight] >>

\* Faulty variant of canFitPanel: no test of the corners.
NoFitTest(coords, specs, centerX, centerY) == TRUE

canFitPanel(coords, specs, centerX, centerY) ==
    LET corners == calculatePanelCorners(specs, centerX, centerY)
    IN \A k \in 1..4 : isPointInRoof(coords, corners[k].lng, corners[k].lat)

\* Math.cos of a latitude, in thousandths (Bhaskara's approximation,
\* error below 0.002), the latitude taken in whole degrees.
CosMilli(lat) ==
    LET d == Abs(lat) \div Scale
    IN ((32400 - 4 * d * d) * 1000) \div (32400 + d * d)

\* calculateDistance, lines 286-291: the great-circle arc between the two
\* points, in model units of arc (1/Scale degree).  For the spans of this
\* model the haversine formula is approximated by
\*     sqrt(dLat^2 + cos(lat1) * cos(lat2) * dLng^2).
\* The conversion of line 292 (R * c * 3.28084, feet) is FeetPerDegree and
\* is applied by FloorFeetDiv where the distance is used: a distance of
\* several degrees in 1/Scale feet does not fit 32 bits.
calculateDistance(lng1, lat1, lng2, lat2) ==
    LET c == (CosMilli(lat1) + CosMilli(lat2)) \div 2
        dLng == Abs(lng2 - lng1)
        eLng == (dLng \div 1000) * c + ((dLng % 1000) * c) \div 1000
    IN Hypot(lat2 - lat1, eLng)

\* 6371000 * (pi / 180) * 3.28084 = 364812.8 feet for a degree of arc.
FeetPerDegree == 364813

\* Math.floor(distance / length), the distance an arc of calculateDistance
\* (converted to feet here) and the length in feet.
FloorFeetDiv(arc, length) == FloorMulDiv(arc, FeetPerDegree, length)

(***************************************************************************)
(* RoofDetector: keepout catalogue (mapManager.js:465-485).                *)
(***************************************************************************)
getKeepoutSize(type) ==
    CASE type = "chimney"  -> [width |-> 4 * Scale, height |-> 4 * Scale]
      [] type = "vent"     -> [width |-> 2 * Scale, height |-> 2 * Scale]
      [] type = "skylight" -> [width |-> 6 * Scale, height |-> 8 * Scale]
      [] type = "hvac"     -> [width |-> 8 * Scale, height |-> 6 * Scale]
      [] OTHER             -> [width |-> 3 * Scale, height |-> 3 * Scale]

getKeepoutBuffer(type) ==
    CASE type = "chimney"  -> 3 * Scale
      [] type = "vent"     -> 2 * Scale
      [] type = "skylight" -> 2 * Scale
      [] type = "hvac"     -> 4 * Scale
      [] OTHER             -> 2 * Scale

(***************************************************************************)
(* PanelPlacer: panels.                                                    *)
(***************************************************************************)

\* calculatePanelEfficiency.  `if (this.roofBoundary.sunExposure)` is a
\* truthiness test: the multiplication is skipped when sunExposure is 0.
\* distanceFromCenter / maxDistance is computed from the doubled offsets
\* (2x - west - east, 2y - north - south) over the diagonal of the bounds,
\* which is the same ratio.  maxDistance is 0 only for a roof whose points
\* all coincide, which holds no panel.
calculatePanelEfficiency(roof, specs, x, y) ==
    LET base == specs.efficiency
        lit == IF roof.sunExposure # 0
               THEN (base * roof.sunExposure) \div Frac
               ELSE base
        bounds == calculateRoofBounds(roof.coordinates)
        distanceFromCenter ==
            Hypot(2 * x - bounds.west - bounds.east, 2 * y - bounds.north - bounds.south)
        maxDistance == Hypot(bounds.east - bounds.west, bounds.north - bounds.south)
        ratio == IF maxDistance = 0 THEN 0
                 ELSE FloorMulDiv(distanceFromCenter, Frac, maxDistance)
        positionFactor == Frac - ratio \div 10
        efficiency == (lit * positionFactor) \div Frac
    IN Max(Frac \div 10, Min(Frac, efficiency))

\* Faulty variant of the id: the column is left out.
RowOnlyId(row, col) == "panel_" \o ToString(row)

\* `panel_${row}_${col}`
PanelId(row, col) == "panel_" \o ToString(row) \o "_" \o ToString(col)

createPanel(roof, specs, x, y, row, col) ==
    [id |-> PanelId(row, col),
     position |-> [lng |-> x, lat |-> y],
     row |-> row,
     col |-> col,
     width |-> specs.width,
     height |-> specs.height,
     power |-> specs.power,
     azimuth |-> roof.azimuth,
     tilt |-> roof.pitch,
     efficiency |-> calculatePanelEfficiency(roof, specs, x, y),
     selected |-> FALSE,
     corners |-> calculatePanelCorners(specs, x, y)]

\* Infinity as a loop bound: more than any index.
Infinity == 2147483647

\* Math.floor(distance / pitch) as a loop bound.  A negative pitch gives a
\* negative bound, under which the loop body never runs, and so does the
\* NaN of 0 / 0; a positive distance over a pitch of 0 gives Infinity.
LoopBound(arc, pitch) ==
    IF pitch > 0 THEN FloorFeetDiv(arc, pitch)
    ELSE IF pitch = 0 /\ arc > 0 THEN Infinity
    ELSE 0 - 1

\* The number of leading grid indices k >= 0 whose coordinate
\* offset = k * pitch + half stays within `extent` of the bounding box.
\* isPointInRoof is FALSE for every point outside the bounding box, so the
\* layout loops are cut off there: the iterations left out push nothing.
InBox(extent, half, pitch) ==
    IF extent - half < 0 THEN 0
    ELSE IF pitch = 0 THEN Infinity
    ELSE ((extent - half) \div pitch) + 1

\* The cells of a `for row ... for col` loop nest, in iteration order.
CellSeq(nRows, nCols) ==
    [k \in 1..(nRows * nCols) |->
        [row |-> (k - 1) \div nCols, col |-> (k - 1) % nCols]]

MapSeq(s, Op(_)) == [k \in 1..Len(s) |-> Op(s[k])]

\* Faulty variant of panelsPerRow: the width of the roof is taken in
\* degrees, without the conversion to feet.
panelsPerRowInDegrees(bounds, specs, spacing) ==
    FloorDiv((bounds.east - bounds.west) \div Scale,
             (specs.width + spacing.horizontal) \div Scale)

\* panelsPerRow and panelsPerColumn of generateRectangularLayout (lines
\* 53-58).
panelsPerRow(bounds, specs, spacing) ==
    LoopBound(calculateDistance(bounds.west, bounds.north, bounds.east, bounds.north),
              specs.width + spacing.horizontal)

panelsPerColumn(bounds, specs, spacing) ==
    LoopBound(calculateDistance(bounds.west, bounds.north, bounds.west, bounds.south),
              specs.height + spacing.vertical)

generateRectangularLayout(roof, specs, spacing) ==
    LET coords == roof.coordinates
        bounds == calculateRoofBounds(coords)
        pitchX == specs.width + spacing.horizontal
        pitchY == specs.height + spacing.vertical
        nCols == Max(0, Min(panelsPerRow(bounds, specs, spacing),
                    InBox(bounds.east - bounds.west, specs.width \div 2, pitchX)))
        nRows == Max(0, Min(panelsPerColumn(bounds, specs, spacing),
                    InBox(bounds.north - bounds.south, specs.height \div 2, pitchY)))
        X(c) == bounds.west + c.col * pitchX + specs.width \div 2
        Y(c) == bounds.north - c.row * pitchY - specs.height \div 2
        kept == SelectSeq(CellSeq(nRows, nCols),
                    LAMBDA c : isPointInRoof(coords, X(c), Y(c)))
    IN MapSeq(kept, LAMBDA c : createPanel(roof, specs, X(c), Y(c), c.row, c.col))

generateGenericLayout(roof, specs, spacing) ==
    generateRectangularLayout(roof, specs, spacing)

\* findLongestEdge: the index i of the start of the first edge
\* (coords[i], coords[i+1]) that is strictly longer than every edge before
\* it and not shorter than 0; 0 when no edge has a positive length.
RECURSIVE LongestFrom(_, _, _, _)
LongestFrom(coords, i, maxLength, best) ==
    IF i > Len(coords) THEN best
    ELSE LET start == coords[i]
             end == coords[(i % Len(coords)) + 1]
             length == calculateDistance(start.lng, start.lat, end.lng, end.lat)
         IN IF length > maxLength
            THEN LongestFrom(coords, i + 1, length, i)
            ELSE LongestFrom(coords, i + 1, maxLength, best)

findLongestEdge(coords) == LongestFrom(coords, 1, 0, 0)

\* One row of generateTriangularLayout.
TriangularRow(roof, specs, bounds, row, pitchY, panelsInRow) ==
    LET coords == roof.coordinates
        X(col) == bounds.west
                  + ((bounds.east - bounds.west) * (2 * col + 1)) \div (2 * panelsInRow)
        y == bounds.north - row * pitchY - specs.height \div 2
        cols == [k \in 1..Max(0, panelsInRow) |-> k - 1]
        kept == SelectSeq(cols, LAMBDA col : isPointInRoof(coords, X(col), y))
    IN MapSeq(kept, LAMBDA col : createPanel(roof, specs, X(col), y, row, col))

\* Rows lo..hi of the row loop, concatenated in order (split in halves to
\* keep the evaluation shallow).
RECURSIVE TriangularRows(_, _, _, _, _, _, _, _)
TriangularRows(roof, specs, bounds, lo, hi, numRows, pitchY, maxPanelsInBase) ==
    IF lo > hi THEN << >>
    ELSE IF lo = hi
    THEN LET panelsInRow == FloorMulDiv(maxPanelsInBase, numRows - lo, numRows)
         IN TriangularRow(roof, specs, bounds, lo, pitchY, panelsInRow)
    ELSE LET mid == (lo + hi) \div 2
         IN TriangularRows(roof, specs, bounds, lo, mid, numRows, pitchY, maxPanelsInBase)
            \o TriangularRows(roof, specs, bounds, mid + 1, hi, numRows, pitchY,
                              maxPanelsInBase)

\* The row loop of generateTriangularLayout.  The rows below the bounding
\* box are cut off (see InBox).
TriangularGrid(roof, specs, bounds, pitchY, numRows, maxPanelsInBase) ==
    TriangularRows(roof, specs, bounds, 0,
                   Min(numRows,
                       InBox(bounds.north - bounds.south, specs.height \div 2, pitchY)) - 1,
                   numRows, pitchY, maxPanelsInBase)

\* generateTriangularLayout for the longest edge (coords[i], coords[i+1]):
\* base = that edge, apex = the first coordinate that is neither end of it.
TriangularOnBase(roof, specs, spacing, bounds, i) ==
    LET coords == roof.coordinates
        n == Len(coords)
        start == coords[i]
        end == coords[(i % n) + 1]
        apex == coords[CHOOSE k \in 1..n :
                          /\ k \notin {i, (i % n) + 1}
                          /\ \A j \in 1..(k - 1) : j \in {i, (i % n) + 1}]
        baseWidth == calculateDistance(start.lng, start.lat, end.lng, end.lat)
        height == calculateDistance((start.lng + end.lng) \div 2,
                                    (start.lat + end.lat) \div 2,
                                    apex.lng, apex.lat)
    IN TriangularGrid(roof, specs, bounds, specs.height + spacing.vertical,
                      LoopBound(height, specs.height + spacing.vertical),
                      Max(0, LoopBound(baseWidth, specs.width + spacing.horizontal)))

generateTriangularLayout(roof, specs, spacing) ==
    TriangularOnBase(roof, specs, spacing, calculateRoofBounds(roof.coordinates),
                     findLongestEdge(roof.coordinates))

\* One row of the grid scan of generateComplexLayout: the panels pushed
\* for grid row `row`, numbered panelCol = 0, 1, ... in the order pushed.
\* nScan is the number of columns scanned.
ComplexRow(roof, specs, bounds, gridSize, row, panelRow, nScan, colStep) ==
    LET coords == roof.coordinates
        X(col) == bounds.west + col * gridSize + specs.width \div 2
        y == bounds.north - row * gridSize - specs.height \div 2
        scanned == [k \in 1..nScan |-> (k - 1) * colStep]
        kept == SelectSeq(scanned,
                    LAMBDA col : /\ isPointInRoof(coords, X(col), y)
                                 /\ canFitPanel(coords, specs, X(col), y))
    IN [k \in 1..Len(kept) |-> createPanel(roof, specs, X(kept[k]), y, panelRow, k - 1)]

\* Iterations lo..hi of the row loop, concatenated in order: iteration k
\* scans grid row k * steps.row with panelRow = k.
RECURSIVE ComplexRows(_, _, _, _, _, _, _, _)
ComplexRows(roof, specs, bounds, gridSize, lo, hi, nScan, steps) ==
    IF lo > hi THEN << >>
    ELSE IF lo = hi
    THEN ComplexRow(roof, specs, bounds, gridSize, lo * steps.row, lo, nScan, steps.col)
    ELSE LET mid == (lo + hi) \div 2
         IN ComplexRows(roof, specs, bounds, gridSize, lo, mid, nScan, steps)
            \o ComplexRows(roof, specs, bounds, gridSize, mid + 1, hi, nScan, steps)

\* generateComplexLayout.  The rows and columns of the scan whose point
\* lies outside the bounding box are cut off (see InBox); no row is
\* scanned when no column is left.
generateComplexLayout(roof, specs, spacing) ==
    LET bounds == calculateRoofBounds(roof.coordinates)
        gridSize == Min(specs.width, specs.height) \div 2
        cols == CeilDiv(bounds.east - bounds.west, gridSize)
        rows == CeilDiv(bounds.north - bounds.south, gridSize)
        steps == [row |-> CeilDiv(specs.height, gridSize),
                  col |-> CeilDiv(specs.width, gridSize)]
        nScan == Min(CeilDiv(cols, steps.col),
                     InBox(bounds.east - bounds.west, specs.width \div 2,
                           steps.col * gridSize))
        nIter == Min(CeilDiv(rows, steps.row),
                     InBox(bounds.north - bounds.south, specs.height \div 2,
                           steps.row * gridSize))
    IN IF nScan <= 0 THEN << >>
       ELSE ComplexRows(roof, specs, bounds, gridSize, 0, nIter - 1, nScan, steps)

\* Faulty variant of the switch: the default branch runs the grid scan of
\* the complex strategy.
LayoutForWithComplexDefault(roof, specs, spacing) ==
    CASE roof.shape = "rectangular" -> generateRectangularLayout(roof, specs, spacing)
      [] roof.shape = "triangular"  -> generateTriangularLayout(roof, specs, spacing)
      [] OTHER                      -> generateComplexLayout(roof, specs, spacing)

\* The switch of generatePanelLayout (lines 30-42).
LayoutFor(roof, specs, spacing) ==
    CASE roof.shape = "rectangular" -> generateRectangularLayout(roof, specs, spacing)
      [] roof.shape = "triangular"  -> generateTriangularLayout(roof, specs, spacing)
      [] roof.shape = "complex"     -> generateComplexLayout(roof, specs, spacing)
      [] OTHER                      -> generateGenericLayout(roof, specs, spacing)

\* TRUE when the loops of the strategy never end.  In the rectangular
\* strategy `row < panelsPerColumn` holds for every row under a bound of
\* Infinity, and `col < panelsPerRow` for every col once a row is entered.
\* In the triangular one numRows = Infinity keeps the row loop running,
\* and with maxPanelsInBase = Infinity the budget of row 0 is Infinity.
\* The steps of generateComplexLayout are at least one grid cell (or NaN,
\* which ends the loop), so its scan of the bounding box ends.
LoopsForever(roof, specs, spacing) ==
    LET bounds == calculateRoofBounds(roof.coordinates)
        coords == roof.coordinates
    IN CASE roof.shape = "triangular" ->
              LET i == findLongestEdge(coords)
                  n == Len(coords)
                  start == coords[i]
                  end == coords[(i % n) + 1]
                  apex == coords[CHOOSE k \in 1..n :
                                    /\ k \notin {i, (i % n) + 1}
                                    /\ \A j \in 1..(k - 1) : j \in {i, (i % n) + 1}]
                  maxPanelsInBase ==
                      LoopBound(calculateDistance(start.lng, start.lat, end.lng, end.lat),
                                specs.width + spacing.horizontal)
                  numRows ==
                      LoopBound(calculateDistance((start.lng + end.lng) \div 2,
                                                  (start.lat + end.lat) \div 2,
                                                  apex.lng, apex.lat),
                                specs.height + spacing.vertical)
              IN \/ numRows = Infinity
                 \/ numRows >= 1 /\ maxPanelsInBase = Infinity
         [] roof.shape = "complex" -> FALSE
         [] OTHER ->
              \/ panelsPerColumn(bounds, specs, spacing) = Infinity
              \/ /\ panelsPerColumn(bounds, specs, spacing) >= 1
                 /\ panelsPerRow(bounds, specs, spacing) = Infinity

(***************************************************************************)
(* PanelPlacer: keepout filtering.                                         *)
(***************************************************************************)
panelBounds(panel) ==
    [west  |-> panel.position.lng - panel.width \div 2,
     east  |-> panel.position.lng + panel.width \div 2,
     north |-> panel.position.lat + panel.height \div 2,
     south |-> panel.position.lat - panel.height \div 2]

keepoutBounds(keepout) ==
    [west  |-> keepout.position.lng - (keepout.size.width + keepout.buffer) \div 2,
     east  |-> keepout.position.lng + (keepout.size.width + keepout.buffer) \div 2,
     north |-> keepout.position.lat + (keepout.size.height + keepout.buffer) \div 2,
     south |-> keepout.position.lat - (keepout.size.height + keepout.buffer) \div 2]

\* Faulty variant: the non-overlap test with <= and >=, under which
\* rectangles that only touch do not overlap.
OverlapHalfOpen(p, k) ==
    ~ (\/ p.east <= k.west
       \/ p.west >= k.east
       \/ p.north <= k.south
       \/ p.south >= k.north)

\* The return expression of panelConflictsWithKeepout.
Overlap(p, k) ==
    ~ (\/ p.east < k.west
       \/ p.west > k.east
       \/ p.north < k.south
       \/ p.south > k.north)

panelConflictsWithKeepout(panel, keepout) ==
    Overlap(panelBounds(panel), keepoutBounds(keepout))

\* Faulty variants of filterKeepoutConflicts: no filtering at all, and a
\* filter without the negation.
NoFilter(panelList, keepoutList) == panelList

FilterKeepsConflicting(panelList, keepoutList) ==
    IF Len(keepoutList) = 0 THEN panelList
    ELSE SelectSeq(panelList,
            LAMBDA panel : \E k \in 1..Len(keepoutList) :
                             panelConflictsWithKeepout(panel, keepoutList[k]))

\* filterKeepoutConflicts: window.roofDetector is set when the scripts load;
\* an empty keepout list returns before the filter.
filterKeepoutConflicts(panelList, keepoutList) ==
    IF Len(keepoutList) = 0 THEN panelList
    ELSE SelectSeq(panelList,
            LAMBDA panel : ~ \E k \in 1..Len(keepoutList) :
                               panelConflictsWithKeepout(panel, keepoutList[k]))

(***************************************************************************)
(* RoofDetector: analysis of the roof (mapManager.js:305-422).             *)
(***************************************************************************)

\* The direction of the edge from p to q as a vector reduced by the gcd of
\* its components.  Math.atan2(0, 0) is 0, the direction of increasing
\* latitude, so a zero-length edge gets that direction.
Direction(p, q) ==
    LET dx == q.lat - p.lat
        dy == q.lng - p.lng
        g  == Gcd(Abs(dx), Abs(dy))
    IN IF g = 0 THEN [dx |-> 1, dy |-> 0] ELSE [dx |-> dx \div g, dy |-> dy \div g]

\* calculateAngle: |atan2(dy1, dx1) - atan2(dy2, dx2)|, folded into
\* [0, 180], is the unsigned angle t between the two directions.  It is
\* returned as [dot, norms] with cos(t) = dot / sqrt(norms).
calculateAngle(p1, p2, p3) ==
    LET u == Direction(p2, p1)
        v == Direction(p2, p3)
    IN [dot   |-> u.dx * v.dx + u.dy * v.dy,
        norms |-> (u.dx * u.dx + u.dy * u.dy) * (v.dx * v.dx + v.dy * v.dy)]

\* Math.abs(angle - 90) < 15, that is cos(t)^2 < sin(15 deg)^2
\* = (2 - sqrt(3)) / 4, that is sqrt(3) * norms < 2 * norms - 4 * dot^2.
\* Both sides are integers of which only the left is scaled by sqrt(3), so
\* equality never occurs.
NearRightAngle(angle) ==
    LET rest == 2 * angle.norms - 4 * angle.dot * angle.dot
    IN rest > 0 /\ 3 * angle.norms * angle.norms < rest * rest

isRectangular(coords) ==
    LET n == Len(coords)
        angleAt(i) == calculateAngle(coords[((i + n - 2) % n) + 1], coords[i],
                                     coords[(i % n) + 1])
    IN IF n # 4 THEN FALSE
       ELSE \A i \in 1..n : NearRightAngle(angleAt(i))

classifyRoofShape(coords) ==
    LET vertexCount == Len(coords)
    IN IF vertexCount = 4
       THEN (IF isRectangular(coords) THEN "rectangular" ELSE "quadrilateral")
       ELSE IF vertexCount = 3 THEN "triangular"
       ELSE IF vertexCount > 4 THEN "complex"
       ELSE "unknown"

calculateComplexity(coords, shape) ==
    LET complexity == Len(coords) * (Frac \div 10)
                      + (IF shape = "complex" THEN 3 * (Frac \div 10) ELSE 0)
    IN Min(complexity, Frac)

\* Faulty variant of calculateAzimuthPenalty: the deviation is not folded
\* into [0, 180].
PenaltyOfRawDeviation(azimuth) ==
    (Abs(azimuth - 180) * 4 * (Frac \div 10)) \div 180

calculateAzimuthPenalty(azimuth) ==
    LET deviation == Abs(azimuth - 180)
        normalizedDeviation == Min(deviation, 360 - deviation)
    IN (normalizedDeviation * 4 * (Frac \div 10)) \div 180

\* Faulty variant of calculateSuitability: the small roof penalty is left
\* out.
SuitabilityIgnoringArea(area, azimuth, complexity) ==
    Max(0, Min(Frac, 8 * (Frac \div 10) - calculateAzimuthPenalty(azimuth)
                     - (complexity * 2) \div 10))

calculateSuitability(area, azimuth, complexity) ==
    LET afterArea == 8 * (Frac \div 10) - (IF area < 200 THEN 2 * (Frac \div 10) ELSE 0)
        suitability == afterArea - calculateAzimuthPenalty(azimuth)
                       - (complexity * 2) \div 10
    IN Max(0, Min(Frac, suitability))

calculateSunExposure(azimuth, pitch) ==
    LET exposure == Frac - (Abs(azimuth - 180) * Frac) \div 180
        pitchFactor == Frac - (Abs(pitch - 35) * Frac) \div 55
    IN (exposure * pitchFactor) \div Frac

\* The JavaScript remainder a % n, which has the sign of a.
JsMod(a, n) == IF a >= 0 THEN a % n ELSE 0 - ((0 - a) % n)

(***************************************************************************)
(* MapManager.  A drawn polygon is [path, area, heading]: its vertices     *)
(* and what the Google Maps geometry library reports for it, the area of   *)
(* computeArea in square feet (times 10.764) and the computeHeading of its *)
(* longest edge in whole degrees, in [-180, 180).                          *)
(***************************************************************************)

\* calculateAzimuth: perpendicular to the longest edge; 180 when there are
\* fewer than 2 coordinates or no edge has a positive length.
calculateAzimuth(polygon) ==
    IF Len(polygon.path) < 2 THEN 180
    ELSE IF \A i \in 1..Len(polygon.path) : polygon.path[i] = polygon.path[1] THEN 180
    ELSE JsMod(polygon.heading + 90, 360)

\* extractRoofData; center is the centre of the LatLngBounds of the path.
\* The fields that RoofDetector.analyzeRoofCharacteristics adds later are
\* present from the start with the value "undefined" / 0.
extractRoofData(polygon) ==
    LET bounds == calculateRoofBounds(polygon.path)
    IN [coordinates |-> polygon.path,
        area |-> polygon.area,
        center |-> [lat |-> (bounds.north + bounds.south) \div 2,
                    lng |-> (bounds.east + bounds.west) \div 2],
        azimuth |-> calculateAzimuth(polygon),
        pitch |-> 30,
        shape |-> "undefined",
        complexity |-> 0,
        suitability |-> 0,
        sunExposure |-> 0]

\* analyzeRoofCharacteristics (the four assignments, in order).
analyzeRoofCharacteristics(roof) ==
    LET shape == classifyRoofShape(roof.coordinates)
        complexity == calculateComplexity(roof.coordinates, shape)
    IN [roof EXCEPT
          !.shape = shape,
          !.complexity = complexity,
          !.suitability = calculateSuitability(roof.area, roof.azimuth, complexity),
          !.sunExposure = calculateSunExposure(roof.azimuth, roof.pitch)]

(***************************************************************************)
(* StatsCalculator.updatePanelData (statsCalculator.js:31-48).             *)
(***************************************************************************)
RECURSIVE SumPower(_, _)
SumPower(panelList, i) ==
    IF i > Len(panelList) THEN 0 ELSE panelList[i].power + SumPower(panelList, i + 1)

RECURSIVE SumEfficiency(_, _)
SumEfficiency(panelList, i) ==
    IF i > Len(panelList) THEN 0
    ELSE panelList[i].efficiency + SumEfficiency(panelList, i + 1)

\* The result of a JavaScript division by zero, NaN or Infinity; the
\* statistics themselves are never negative.
NotFinite == 0 - 1

JsDivide(a, b) == IF b = 0 THEN NotFinite ELSE a \div b

\* Faulty variant of updatePanelData: the sum of the efficiencies is not
\* divided by the number of panels.
UndividedAverage(st, panelList) ==
    [st EXCEPT
       !.panelCount = Len(panelList),
       !.totalPower = SumPower(panelList, 1),
       !.averageEfficiency = SumEfficiency(panelList, 1)]

updatePanelData(st, panelList) ==
    LET panelCount == Len(panelList)
        totalPower == SumPower(panelList, 1)
        totalEfficiency == SumEfficiency(panelList, 1)
    IN [st EXCEPT
          !.panelCount = panelCount,
          !.totalPower = totalPower,
          !.averageEfficiency =
              IF panelCount > 0 THEN JsDivide(totalEfficiency, panelCount) ELSE 0]

\* Faulty variant of calculateRoofUtilization, without the test for a roof
\* area of 0.
UtilizationUnguarded(st, specs) ==
    JsDivide(st.panelCount * (((specs.width \div 1000) * (specs.height \div 1000)) \div 1000)
               * 100,
             st.roofArea)

\* StatsCalculator.calculateRoofUtilization (statsCalculator.js:231-240),
\* a percentage in thousandths; the area of a panel is taken in
\* thousandths of a square foot.
calculateRoofUtilization(st, specs) ==
    IF st.roofArea = 0 THEN 0
    ELSE LET singlePanelArea == ((specs.width \div 1000) * (specs.height \div 1000)) \div 1000
             totalPanelArea == st.panelCount * singlePanelArea
         IN JsDivide(totalPanelArea * 100, st.roofArea)

(***************************************************************************)
(* State.                                                                  *)
(***************************************************************************)
VARIABLES
    roofData,        \* RoofDetector.roofData
    keepouts,        \* RoofDetector.keepouts
    roofBoundary,    \* PanelPlacer.roofBoundary
    panels,          \* PanelPlacer.panels
    panelSpecs,      \* PanelPlacer.panelSpecs
    spacing,         \* PanelPlacer.spacing
    selectedPanels,  \* PanelPlacer.selectedPanels
    stats,           \* StatsCalculator: roofArea, panelCount, totalPower, averageEfficiency
    candidates,      \* history: this.panels as the last generatePanelLayout handed it to filterKeepoutConflicts
    successive,      \* history: the number of calls of generatePanelLayout (direct, or
                     \* made by setRoofBoundary, setPanelSpecs or setSpacing) since the
                     \* last other operation, counted up to MaxSuccessive
    project,         \* the project of localStorage['solarProjects'] that loadProject reads
    looping          \* TRUE when a call of generatePanelLayout entered a loop that
                     \* never ends: the page executes nothing more

vars == <<roofData, keepouts, roofBoundary, panels, panelSpecs, spacing,
          selectedPanels, stats, candidates, successive, project, looping>>

\* null, as a roof record.
NullRoof ==
    [coordinates |-> << >>, area |-> 0, center |-> [lat |-> 0, lng |-> 0],
     azimuth |-> 0, pitch |-> 0, shape |-> "null", complexity |-> 0,
     suitability |-> 0, sunExposure |-> 0]

\* selectedPanels holds references to panel objects.  An entry is
\* [ref, id]: ref > 0 when the object is the element panels[ref] of the
\* current list, and then id is "" (the id is that of panels[ref]);
\* ref = 0 when the object is no longer an element of this.panels.  Of
\* such an object only the id is kept: selectPanel reads the id (line 309)
\* and no operation reads another field of it.
Live(k) == [ref |-> k, id |-> ""]
Detached(panel) == [ref |-> 0, id |-> panel.id]
IdOf(entry, panelList) == IF entry.ref > 0 THEN panelList[entry.ref].id ELSE entry.id

\* `this.panels = []` followed by pushes of new objects: the objects that
\* selectedPanels refers to leave the list.
Detach(selected, panelList) ==
    [k \in 1..Len(selected) |->
        IF selected[k].ref > 0 THEN Detached(panelList[selected[k].ref])
        ELSE selected[k]]

(***************************************************************************)
(* Inputs.                                                                 *)
(***************************************************************************)
Pt(lng, lat) == [lat |-> lat, lng |-> lng]

\* A roof of 18 x 8 degrees drawn counter-clockwise from its south-west
\* corner; its longest edge is the first, on the equator, heading east.
RectRoof ==
    [path |-> <<Pt(0, 0), Pt(18 * Scale, 0), Pt(18 * Scale, 8 * Scale), Pt(0, 8 * Scale)>>,
     area |-> 2000 * Scale, heading |-> 90]

\* A roof of about 40 x 30 feet (110 x 84 millionths of a degree).
HouseRoof ==
    [path |-> <<Pt(0, 0), Pt(110, 0), Pt(110, 84), Pt(0, 84)>>,
     area |-> 1230, heading |-> 90]

\* A quadrilateral without right angles; its longest edge is the first,
\* heading south-west.
QuadRoof ==
    [path |-> <<Pt(14 * Scale, 8 * Scale), Pt(0, 0), Pt(16 * Scale, 0),
                Pt(18 * Scale, 4 * Scale)>>,
     area |-> 2000 * Scale, heading |-> 0 - 119]

\* An L-shaped roof; its longest edge is the first, on the equator,
\* heading west.
LRoof ==
    [path |-> <<Pt(19 * Scale, 0), Pt(0, 0), Pt(0, 6 * Scale), Pt(9 * Scale, 6 * Scale),
                Pt(9 * Scale, 10 * Scale), Pt(19 * Scale, 10 * Scale)>>,
     area |-> 2000 * Scale, heading |-> 0 - 90]

\* A small triangle with its longest edge, the first, in the north.
TriRoof ==
    [path |-> <<Pt(0, 10000), Pt(15000, 10000), Pt(7500, 0)>>,
     area |-> 9980000, heading |-> 90]

Polygons == {RectRoof, HouseRoof, QuadRoof, LRoof, TriRoof}

\* Arguments of setPanelSpecs and setSpacing (partial objects).
SpecInputs ==
    {[width |-> 5400000, height |-> 3250000],
     [width |-> 600 * Scale, height |-> 10000]}

SpacingInputs ==
    {[horizontal |-> 500000],
     [horizontal |-> 3500000, vertical |-> 500000]}

\* Math.random() in generateMockKeepouts, in steps of 1/RandomGrain.
RandomGrain == 4
KeepoutTypes == <<"chimney", "vent", "skylight", "hvac">>
MaxMockKeepouts == 1
MockDraw == [type : {0}, lat : {2}, lng : {2}]
MockDraws == UNION {[1..n -> MockDraw] : n \in 1..MaxMockKeepouts}

\* Arguments of addKeepout(type, position, size): at = "center" stands
\* for the position roofData.center, sized = FALSE for an omitted size.
MaxKeepouts == 1
AddKeepoutInputs ==
    {[type |-> "chimney", at |-> "center", position |-> Pt(0, 0), sized |-> TRUE,
      size |-> [width |-> 2 * Scale, height |-> 2 * Scale]],
     [type |-> "vent", at |-> "point", position |-> Pt(7400000, 4 * Scale),
      sized |-> FALSE, size |-> [width |-> 0, height |-> 0]]}

SelectIds == {PanelId(0, 0)}
MaxSelected == 1
MaxDetached == 1
MoveInputs == {<<12 * Scale, 0>>}
MaxLng == 20 * Scale
RotateInputs == {0 - 360}
MaxSuccessive == 2

(***************************************************************************)
(* Operations.                                                             *)
(***************************************************************************)
\* No project in localStorage: loadProject finds none and returns.
NoProject ==
    [stored |-> FALSE, roofData |-> NullRoof, keepouts |-> << >>, panels |-> << >>,
     panelSpecs |-> [width |-> 0], spacing |-> [horizontal |-> 0]]

\* The constructor of PanelPlacer: 5.4 x 3.25 ft, 400 W, efficiency 0.20,
\* gaps of 0.5 ft.
DefaultPanelSpecs ==
    [width |-> 5400000, height |-> 3250000, power |-> 400,
     efficiency |-> 2 * (Frac \div 10)]

DefaultSpacing == [horizontal |-> 500000, vertical |-> 500000]

Init ==
    /\ roofData = NullRoof
    /\ keepouts = << >>
    /\ roofBoundary = NullRoof
    /\ panels = << >>
    /\ panelSpecs = DefaultPanelSpecs
    /\ spacing = DefaultSpacing
    /\ selectedPanels = << >>
    /\ stats = [roofArea |-> 0, panelCount |-> 0, totalPower |-> 0,
                averageEfficiency |-> 0]
    /\ candidates = << >>
    /\ successive = 0
    /\ project = NoProject
    /\ looping = FALSE

\* { ...base, ...update }
Spread(base, update) ==
    [f \in DOMAIN base \cup DOMAIN update |->
        IF f \in DOMAIN update THEN update[f] ELSE base[f]]

\* `this.panels = []` (line 27), and a faulty variant without it, under
\* which the layout is pushed behind the panels already there.
KeepPanels(panelList) == panelList

ResetPanels(panelList) == << >>

\* Faulty variant of generatePanelLayout: the statistics are taken from the
\* candidates, before the keepouts are filtered out.
StatsOfCandidates(boundary, keepoutList, specs, space, st) ==
    IF boundary = NullRoof
    THEN /\ UNCHANGED <<panels, candidates, selectedPanels, looping>>
         /\ stats' = st
    ELSE IF LoopsForever(boundary, specs, space)
    THEN /\ looping' = TRUE
         /\ panels' = ResetPanels(panels)
         /\ selectedPanels' = Detach(selectedPanels, panels)
         /\ UNCHANGED <<candidates, stats>>
    ELSE /\ candidates' = ResetPanels(panels) \o LayoutFor(boundary, specs, space)
         /\ panels' = filterKeepoutConflicts(candidates', keepoutList)
         /\ selectedPanels' = Detach(selectedPanels, panels)
         /\ UNCHANGED looping
         /\ stats' = updatePanelData(st, candidates')

\* PanelPlacer.generatePanelLayout with the given roof boundary, keepouts,
\* specs and spacing: the next values of panels, candidates, selectedPanels
\* and of the statistics st.  When the loops of the strategy never end,
\* the call does not return: the list was emptied (line 27), the filter
\* and the statistics are never reached, and neither is any statement of
\* the caller behind the call.
generatePanelLayout(boundary, keepoutList, specs, space, st) ==
    IF boundary = NullRoof
    THEN /\ UNCHANGED <<panels, candidates, selectedPanels, looping>>
         /\ stats' = st
    ELSE IF LoopsForever(boundary, specs, space)
    THEN /\ looping' = TRUE
         /\ panels' = ResetPanels(panels)
         /\ selectedPanels' = Detach(selectedPanels, panels)
         /\ UNCHANGED <<candidates, stats>>
    ELSE /\ candidates' = ResetPanels(panels) \o LayoutFor(boundary, specs, space)
         /\ panels' = filterKeepoutConflicts(candidates', keepoutList)
         /\ selectedPanels' = Detach(selectedPanels, panels)
         /\ UNCHANGED looping
         /\ stats' = updatePanelData(st, panels')

\* Faulty variant of the planning pass: the filter uses the keepout list
\* up.
GeneratePanelLayoutUsingUpKeepouts ==
    /\ ~ looping
    /\ Len(selectedPanels) <= MaxDetached
    /\ generatePanelLayout(roofBoundary, keepouts, panelSpecs, spacing, stats)
    /\ keepouts' = << >>
    /\ successive' = Min(successive + 1, MaxSuccessive)
    /\ UNCHANGED <<project, roofData, roofBoundary, panelSpecs, spacing>>

GeneratePanelLayout ==
    /\ ~ looping
    /\ Len(selectedPanels) <= MaxDetached
    /\ generatePanelLayout(roofBoundary, keepouts, panelSpecs, spacing, stats)
    /\ successive' = Min(successive + 1, MaxSuccessive)
    /\ UNCHANGED <<project, roofData, keepouts, roofBoundary, panelSpecs, spacing>>

\* Faulty variant of setPanelSpecs: the specs are merged and the layout is
\* left as it is.
SetPanelSpecsOnly(specs) ==
    /\ ~ looping
    /\ panelSpecs' = Spread(panelSpecs, specs)
    /\ successive' = 0
    /\ UNCHANGED <<project, looping, roofData, keepouts, roofBoundary, spacing, panels,
                   candidates, selectedPanels, stats>>

SetPanelSpecs(specs) ==
    /\ ~ looping
    /\ Len(selectedPanels) <= MaxDetached
    /\ panelSpecs' = Spread(panelSpecs, specs)
    /\ generatePanelLayout(roofBoundary, keepouts, panelSpecs', spacing, stats)
    /\ successive' = 1
    /\ UNCHANGED <<project, roofData, keepouts, roofBoundary, spacing>>

SetSpacing(space) ==
    /\ ~ looping
    /\ Len(selectedPanels) <= MaxDetached
    /\ spacing' = Spread(spacing, space)
    /\ generatePanelLayout(roofBoundary, keepouts, panelSpecs, spacing', stats)
    /\ successive' = 1
    /\ UNCHANGED <<project, roofData, keepouts, roofBoundary, panelSpecs>>

\* generateMockKeepouts, one draw of Math.random() per keepout for the
\* type, the latitude and the longitude.
generateMockKeepouts(roof, draws) ==
    LET bounds == calculateRoofBounds(roof.coordinates)
        keepout(d) ==
            [type |-> KeepoutTypes[d.type + 1],
             position |->
                [lat |-> bounds.south
                         + (d.lat * (bounds.north - bounds.south)) \div RandomGrain,
                 lng |-> bounds.west
                         + (d.lng * (bounds.east - bounds.west)) \div RandomGrain],
             size |-> getKeepoutSize(KeepoutTypes[d.type + 1]),
             buffer |-> getKeepoutBuffer(KeepoutTypes[d.type + 1])]
    IN [i \in 1..Len(draws) |-> keepout(draws[i])]

\* detectKeepouts
detectKeepouts(roof, draws) ==
    IF roof.area > 500 THEN generateMockKeepouts(roof, draws) ELSE << >>

\* Faulty variant of handlePolygonComplete: the boundary is handed to the
\* panel placer before the detector has analysed it.
LayoutBeforeAnalysis(polygon, draws) ==
    /\ ~ looping
    /\ Len(selectedPanels) <= MaxDetached
    /\ roofData' = analyzeRoofCharacteristics(extractRoofData(polygon))
    /\ keepouts' = detectKeepouts(roofData', draws)
    /\ roofBoundary' = extractRoofData(polygon)
    /\ generatePanelLayout(roofBoundary', keepouts', panelSpecs, spacing,
                           [stats EXCEPT !.roofArea = roofData'.area])
    /\ successive' = 1
    /\ UNCHANGED <<project, panelSpecs, spacing>>

\* MapManager.handlePolygonComplete: extractRoofData,
\* RoofDetector.processRoofData, PanelPlacer.setRoofBoundary,
\* StatsCalculator.updateRoofArea (which writes roofArea only, a field
\* that updatePanelData does not touch).
HandlePolygonComplete(polygon, draws) ==
    /\ ~ looping
    /\ Len(selectedPanels) <= MaxDetached
    /\ roofData' = analyzeRoofCharacteristics(extractRoofData(polygon))
    /\ keepouts' = detectKeepouts(roofData', draws)
    /\ roofBoundary' = roofData'
    /\ generatePanelLayout(roofBoundary', keepouts', panelSpecs, spacing,
                           [stats EXCEPT !.roofArea = roofData'.area])
    /\ successive' = 1
    /\ UNCHANGED <<project, panelSpecs, spacing>>

\* RoofDetector.addKeepout, removeKeepout, clearKeepouts.
AddKeepout(in) ==
    /\ ~ looping
    /\ Len(keepouts) < MaxKeepouts
    /\ in.at = "center" => roofData # NullRoof
    /\ keepouts' = Append(keepouts,
          [type |-> in.type,
           position |-> IF in.at = "center" THEN roofData.center ELSE in.position,
           size |-> IF in.sized THEN in.size ELSE getKeepoutSize(in.type),
           buffer |-> getKeepoutBuffer(in.type)])
    /\ successive' = 0
    /\ UNCHANGED <<project, looping, roofData, roofBoundary, panels, panelSpecs, spacing,
                   selectedPanels, stats, candidates>>

RemoveKeepout(index) ==
    /\ ~ looping
    /\ keepouts' = IF index >= 0 /\ index < Len(keepouts)
                   THEN [k \in 1..(Len(keepouts) - 1) |->
                            IF k <= index THEN keepouts[k] ELSE keepouts[k + 1]]
                   ELSE keepouts
    /\ successive' = 0
    /\ UNCHANGED <<project, looping, roofData, roofBoundary, panels, panelSpecs, spacing,
                   selectedPanels, stats, candidates>>

ClearKeepouts ==
    /\ ~ looping
    /\ keepouts' = << >>
    /\ successive' = 0
    /\ UNCHANGED <<project, looping, roofData, roofBoundary, panels, panelSpecs, spacing,
                   selectedPanels, stats, candidates>>

\* Selection.
FirstWithId(panelList, panelId) ==
    LET found == {k \in 1..Len(panelList) : panelList[k].id = panelId}
    IN IF found = {} THEN 0 ELSE CHOOSE k \in found : \A j \in found : k <= j

SelectPanel(panelId) ==
    LET k == FirstWithId(panels, panelId)
        toggled == [panels EXCEPT ![k].selected = ~ panels[k].selected]
    IN /\ ~ looping
       /\ k > 0 /\ ~ panels[k].selected => Len(selectedPanels) < MaxSelected
       /\ IF k = 0
          THEN UNCHANGED <<panels, selectedPanels>>
          ELSE /\ panels' = toggled
               /\ selectedPanels' =
                    IF toggled[k].selected
                    THEN Append(selectedPanels, Live(k))
                    ELSE SelectSeq(selectedPanels,
                                   LAMBDA e : IdOf(e, toggled) # panelId)
       /\ successive' = 0
       /\ UNCHANGED <<project, looping, roofData, keepouts, roofBoundary, panelSpecs, spacing,
                      stats, candidates>>

SelectAllPanels ==
    /\ ~ looping
    /\ panels' = [k \in 1..Len(panels) |-> [panels[k] EXCEPT !.selected = TRUE]]
    /\ selectedPanels' = [k \in 1..Len(panels) |-> Live(k)]
    /\ successive' = 0
    /\ UNCHANGED <<project, looping, roofData, keepouts, roofBoundary, panelSpecs, spacing,
                   stats, candidates>>

DeselectAllPanels ==
    /\ ~ looping
    /\ panels' = [k \in 1..Len(panels) |-> [panels[k] EXCEPT !.selected = FALSE]]
    /\ selectedPanels' = << >>
    /\ successive' = 0
    /\ UNCHANGED <<project, looping, roofData, keepouts, roofBoundary, panelSpecs, spacing,
                   stats, candidates>>

DeleteSelectedPanels ==
    /\ ~ looping
    /\ panels' = SelectSeq(panels, LAMBDA panel : ~ panel.selected)
    /\ selectedPanels' = << >>
    /\ stats' = updatePanelData(stats, panels')
    /\ successive' = 0
    /\ UNCHANGED <<project, looping, roofData, keepouts, roofBoundary, panelSpecs, spacing, candidates>>

\* The number of entries of selectedPanels that refer to panels[k]: the
\* forEach of movePanels and rotatePanels visits the object that often.
Visits(k) == Cardinality({i \in 1..Len(selectedPanels) : selectedPanels[i].ref = k})

Moved(panel, deltaX, deltaY, times) ==
    LET lng == panel.position.lng + times * deltaX
        lat == panel.position.lat + times * deltaY
    IN IF times = 0 THEN panel
       ELSE [panel EXCEPT !.position = [lng |-> lng, lat |-> lat],
                          !.corners = calculatePanelCorners(panelSpecs, lng, lat)]

MovePanels(deltaX, deltaY) ==
    /\ ~ looping
    /\ \A k \in 1..Len(panels) :
          panels[k].position.lng + Visits(k) * deltaX <= MaxLng
    /\ panels' = [k \in 1..Len(panels) |-> Moved(panels[k], deltaX, deltaY, Visits(k))]
    /\ stats' = updatePanelData(stats, panels')
    /\ successive' = 0
    /\ UNCHANGED <<project, looping, roofData, keepouts, roofBoundary, panelSpecs, spacing,
                   selectedPanels, candidates>>

RECURSIVE Rotated(_, _, _)
Rotated(panel, angle, times) ==
    IF times = 0 THEN panel
    ELSE Rotated([panel EXCEPT !.azimuth = JsMod(panel.azimuth + angle, 360)],
                 angle, times - 1)

RotatePanels(angle) ==
    /\ ~ looping
    /\ panels' = [k \in 1..Len(panels) |-> Rotated(panels[k], angle, Visits(k))]
    /\ stats' = updatePanelData(stats, panels')
    /\ successive' = 0
    /\ UNCHANGED <<project, looping, roofData, keepouts, roofBoundary, panelSpecs, spacing,
                   selectedPanels, candidates>>

ClearPanels ==
    /\ ~ looping
    /\ panels' = << >>
    /\ selectedPanels' = << >>
    /\ stats' = updatePanelData(stats, << >>)
    /\ successive' = 0
    /\ UNCHANGED <<project, looping, roofData, keepouts, roofBoundary, panelSpecs, spacing, candidates>>

\* MapManager.clearRoofDetection: PanelPlacer.clearPanels, then
\* StatsCalculator.reset.
ClearRoofDetection ==
    /\ ~ looping
    /\ panels' = << >>
    /\ selectedPanels' = << >>
    /\ stats' = [roofArea |-> 0, panelCount |-> 0, totalPower |-> 0,
                 averageEfficiency |-> 0]
    /\ successive' = 0
    /\ UNCHANGED <<project, looping, roofData, keepouts, roofBoundary, panelSpecs, spacing, candidates>>

Next ==
    \/ \E polygon \in Polygons : \E draws \in MockDraws :
          HandlePolygonComplete(polygon, draws)
    \/ GeneratePanelLayout
    \/ \E specs \in SpecInputs : SetPanelSpecs(specs)
    \/ \E space \in SpacingInputs : SetSpacing(space)
    \/ \E in \in AddKeepoutInputs : AddKeepout(in)
    \/ \E index \in 0..(MaxKeepouts - 1) : RemoveKeepout(index)
    \/ ClearKeepouts
    \/ \E panelId \in SelectIds : SelectPanel(panelId)
    \/ SelectAllPanels
    \/ DeselectAllPanels
    \/ DeleteSelectedPanels
    \/ \E d \in MoveInputs : MovePanels(d[1], d[2])
    \/ \E angle \in RotateInputs : RotatePanels(angle)
    \/ ClearPanels
    \/ ClearRoofDetection

Spec == Init /\ [][Next]_vars

(***************************************************************************)
(* ProjectManager: saveProject and loadProject (projectManager.js:77-172), *)
(* with the operations that set what a project holds.  A page load runs    *)
(* the constructors again and leaves localStorage as it is.                *)
(***************************************************************************)
\* saveProject: exportRoofData and exportPanelData, written to localStorage
\* by JSON.stringify and read back by JSON.parse, which reproduce these
\* plain objects of finite numbers, strings and booleans as they are.
SaveProject ==
    /\ ~ looping
    /\ project' = [stored |-> TRUE, roofData |-> roofData, keepouts |-> keepouts,
                   panels |-> panels, panelSpecs |-> panelSpecs, spacing |-> spacing]
    /\ UNCHANGED <<roofData, keepouts, roofBoundary, panels, panelSpecs, spacing,
                   selectedPanels, stats, candidates, successive, looping>>

\* The longest keepout list that loadProject builds here.
MaxLoadedKeepouts == 2

\* The keepouts of the project, pushed by addKeepout(type, position, size).
RestoredKeepouts(saved) ==
    [k \in 1..Len(saved) |->
        [type |-> saved[k].type,
         position |-> saved[k].position,
         size |-> saved[k].size,
         buffer |-> getKeepoutBuffer(saved[k].type)]]

\* loadProject: processRoofData(project.roofData.roofData), addKeepout for
\* every keepout of the project, setPanelSpecs, setSpacing.  With a null
\* roofData detectKeepouts throws after `this.keepouts = []`; loadProject
\* catches the error and loads nothing more.  setPanelSpecs and setSpacing
\* each end with generatePanelLayout; the second call overwrites all that
\* the first one wrote.
LoadProject(draws) ==
    /\ ~ looping
    /\ project.stored
    /\ Len(project.keepouts) + MaxMockKeepouts <= MaxLoadedKeepouts
    /\ IF project.roofData = NullRoof
       THEN /\ roofData' = NullRoof
            /\ keepouts' = << >>
            /\ successive' = 0
            /\ UNCHANGED <<panels, panelSpecs, spacing, selectedPanels, stats, candidates,
                           looping>>
       ELSE /\ roofData' = analyzeRoofCharacteristics(project.roofData)
            /\ keepouts' = detectKeepouts(roofData', draws) \o RestoredKeepouts(project.keepouts)
            /\ panelSpecs' = Spread(panelSpecs, project.panelSpecs)
            /\ spacing' = Spread(spacing, project.spacing)
            /\ generatePanelLayout(roofBoundary, keepouts', panelSpecs', spacing', stats)
            /\ successive' = 1
    /\ UNCHANGED <<roofBoundary, project>>

\* A page load: the constructors run, localStorage stays.
Reload ==
    /\ roofData' = NullRoof
    /\ keepouts' = << >>
    /\ roofBoundary' = NullRoof
    /\ panels' = << >>
    /\ panelSpecs' = DefaultPanelSpecs
    /\ spacing' = DefaultSpacing
    /\ selectedPanels' = << >>
    /\ stats' = [roofArea |-> 0, panelCount |-> 0, totalPower |-> 0,
                 averageEfficiency |-> 0]
    /\ candidates' = << >>
    /\ successive' = 0
    /\ looping' = FALSE
    /\ UNCHANGED project

NextProject ==
    \/ \E polygon \in Polygons : \E draws \in MockDraws :
          HandlePolygonComplete(polygon, draws)
    \/ \E specs \in SpecInputs : SetPanelSpecs(specs)
    \/ \E space \in SpacingInputs : SetSpacing(space)
    \/ SaveProject
    \/ \E draws \in MockDraws : LoadProject(draws)
    \/ Reload

SpecProject == Init /\ [][NextProject]_vars

(***************************************************************************)
(* PanelPlacer driven through its own methods (panelPlacer.js:19-22,       *)
(* 24-49, 352-356, 382-390), with boundaries, specs and spacings that the  *)
(* methods take as they come: they test none of their arguments.           *)
(***************************************************************************)
\* A small triangle with its longest edge, the first, in the south and
\* the apex in the north.
ApexNorthRoof ==
    [path |-> <<Pt(0, 0), Pt(15000, 0), Pt(7500, 10000)>>,
     area |-> 9980000, heading |-> 90]

\* A boundary of two points.
TwoPointRoof ==
    [path |-> <<Pt(0, 0), Pt(18 * Scale, 0)>>, area |-> 0, heading |-> 90]

\* Arguments of setRoofBoundary: analysed roof data, and roof data as
\* extractRoofData returns it, without a shape.
BoundaryInputs ==
    {analyzeRoofCharacteristics(extractRoofData(polygon)) :
        polygon \in {RectRoof, QuadRoof, TriRoof, ApexNorthRoof, TwoPointRoof}}
    \cup {extractRoofData(QuadRoof)}

\* A wide panel of 0.001 ft, and a panel with a height of -1 ft.
PlacerSpecInputs ==
    {[width |-> 5400000, height |-> 3250000],
     [width |-> 600 * Scale, height |-> 1000],
     [width |-> 5400000, height |-> 0 - Scale]}

\* Gaps; the horizontal gap of -600 ft makes width + gap = 0 for the wide
\* panel.
PlacerSpacingInputs ==
    {[horizontal |-> 500000, vertical |-> 500000],
     [vertical |-> 1000],
     [vertical |-> 4250000],
     [horizontal |-> 0 - 600 * Scale]}

\* PanelPlacer.setRoofBoundary
SetRoofBoundary(roof) ==
    /\ ~ looping
    /\ roofBoundary' = roof
    /\ generatePanelLayout(roofBoundary', keepouts, panelSpecs, spacing, stats)
    /\ successive' = 1
    /\ UNCHANGED <<project, roofData, keepouts, panelSpecs, spacing>>

NextPlacer ==
    \/ \E roof \in BoundaryInputs : SetRoofBoundary(roof)
    \/ \E specs \in PlacerSpecInputs : SetPanelSpecs(specs)
    \/ \E space \in PlacerSpacingInputs : SetSpacing(space)
    \/ GeneratePanelLayout
    \/ ClearPanels

SpecPlacer == Init /\ [][NextPlacer]_vars

(***************************************************************************)
(* RoofDetector.processRoofData on its own, for the properties of the      *)
(* analysis: the initial states are the states after `this.roofData =      *)
(* roofData` (mapManager.js:291) for roof data of small paths, and the     *)
(* single step is the rest of processRoofData.                             *)
(***************************************************************************)
\* The vertices of the analysed paths.
GridPoints == {Pt(x, y) : x \in {0, 1, 4}, y \in {0, 1, 4}}

\* Paths that are analysed with every heading of ClassifyHeadings: one of
\* each vertex count from 2 to 7.
HeadedPaths ==
    {<<Pt(0, 0), Pt(4, 0)>>,
     <<Pt(0, 0), Pt(4, 0), Pt(4, 4)>>,
     <<Pt(0, 0), Pt(4, 0), Pt(4, 4), Pt(0, 4)>>,
     <<Pt(0, 0), Pt(4, 0), Pt(4, 1), Pt(1, 4), Pt(0, 4)>>,
     <<Pt(4, 0), Pt(0, 0), Pt(0, 1), Pt(1, 1), Pt(1, 4), Pt(4, 4)>>,
     <<Pt(0, 0), Pt(4, 0), Pt(4, 1), Pt(1, 1), Pt(1, 4), Pt(0, 4), Pt(0, 1)>>}

\* computeHeading of the longest edge, in [-180, 180): every 15 degrees and
\* the headings around due west, where heading + 90 changes sign.
ClassifyHeadings == {15 * k - 180 : k \in 0..23} \cup {0 - 91, 0 - 89, 179}

\* All paths of at most four vertices, and the paths of HeadedPaths.
ClassifyPaths == UNION {[1..n -> GridPoints] : n \in 0..4} \cup HeadedPaths

\* The areas of the paths of three vertices and more; a path of fewer
\* vertices encloses no area.
ClassifyAreas == {100, 600}

InitClassify ==
    /\ \E path \in ClassifyPaths :
          \E area \in (IF Len(path) < 3 THEN {0} ELSE ClassifyAreas) :
             \E heading \in (IF path \in HeadedPaths THEN ClassifyHeadings ELSE {90}) :
                roofData = extractRoofData([path |-> path, area |-> area,
                                            heading |-> heading])
    /\ keepouts = << >>
    /\ roofBoundary = NullRoof
    /\ panels = << >>
    /\ candidates = << >>
    /\ panelSpecs = DefaultPanelSpecs
    /\ spacing = DefaultSpacing
    /\ selectedPanels = << >>
    /\ stats = [roofArea |-> 0, panelCount |-> 0, totalPower |-> 0,
                averageEfficiency |-> 0]
    /\ successive = 0
    /\ project = NoProject
    /\ looping = FALSE

\* processRoofData after its first assignment: analyzeRoofCharacteristics
\* and detectKeepouts (calculateOptimalZones writes a field of its own).
ProcessRoofData(draws) ==
    /\ ~ looping
    /\ roofData.shape = "undefined"
    /\ roofData' = analyzeRoofCharacteristics(roofData)
    /\ keepouts' = detectKeepouts(roofData', draws)
    /\ UNCHANGED <<project, looping, roofBoundary, panels, panelSpecs, spacing, selectedPanels,
                   stats, candidates, successive>>

NextClassify == \E draws \in MockDraws : ProcessRoofData(draws)

SpecClassify == InitClassify /\ [][NextClassify]_vars

(***************************************************************************)
(* Properties of the layout.                                               *)
(***************************************************************************)

\* The state right after a call of generatePanelLayout on a roof, whether
\* direct or made by setRoofBoundary, setPanelSpecs or setSpacing.
JustGenerated == successive >= 1 /\ roofBoundary # NullRoof

\* C1: idempotence.  A call of generatePanelLayout() that directly follows
\* another one (nothing in between, so the roof boundary, the keepouts,
\* panelSpecs and spacing are unchanged) leaves the same panel list: the
\* same panels with the same ids and positions in the same order.  Only a
\* direct call that follows a call makes successive' reach 2.
C1_Idempotent ==
    [][(successive >= 1 /\ successive' >= 2) => panels' = panels]_vars

\* A second call in succession on a roof with panels and a keepout.
C1_Witness ==
    /\ successive >= 2
    /\ Len(panels) >= 2
    /\ keepouts # << >>

\* C2: containment.  After generatePanelLayout every panel of the list has
\* its center inside the roof boundary by isPointInRoof, and on a roof of
\* shape 'complex' its four corners as well.
C2_Containment ==
    JustGenerated =>
        \A k \in 1..Len(panels) :
            /\ isPointInRoof(roofBoundary.coordinates,
                             panels[k].position.lng, panels[k].position.lat)
            /\ roofBoundary.shape = "complex" =>
                  \A c \in 1..4 :
                      isPointInRoof(roofBoundary.coordinates,
                                    panels[k].corners[c].lng, panels[k].corners[c].lat)

\* A complex roof with panels, laid out by a direct call.
C2_Witness ==
    /\ JustGenerated
    /\ roofBoundary.shape = "complex"
    /\ Len(panels) >= 3

ClaimedZone(keepout) ==
    [west  |-> keepout.position.lng - (keepout.size.width + 2 * keepout.buffer) \div 2,
     east  |-> keepout.position.lng + (keepout.size.width + 2 * keepout.buffer) \div 2,
     north |-> keepout.position.lat + (keepout.size.height + 2 * keepout.buffer) \div 2,
     south |-> keepout.position.lat - (keepout.size.height + 2 * keepout.buffer) \div 2]

\* Two rectangles overlap: neither lies strictly beyond the other.
RectanglesOverlap(p, z) ==
    /\ p.east >= z.west
    /\ p.west <= z.east
    /\ p.north >= z.south
    /\ p.south <= z.north

\* C4: a panel conflicts with a keepout exactly when its rectangle overlaps
\* the rectangle of size + 2 x buffer centered on the keepout.  Stated for
\* every generated panel and every keepout of the list.
C4_BufferOnEachSide ==
    \A k \in 1..Len(candidates) : \A j \in 1..Len(keepouts) :
        panelConflictsWithKeepout(candidates[k], keepouts[j])
            <=> RectanglesOverlap(panelBounds(candidates[k]), ClaimedZone(keepouts[j]))

\* A panel edge lies exactly on the facing edge of the keepout's buffered
\* rectangle, and the two rectangles are not apart along the other axis.
Touches(p, z) ==
    \/ /\ p.east = z.west \/ p.west = z.east
       /\ p.north >= z.south /\ p.south <= z.north
    \/ /\ p.north = z.south \/ p.south = z.north
       /\ p.east >= z.west /\ p.west <= z.east

\* C5 as claimed: a panel whose edge exactly touches the edge of the
\* keepout's buffered rectangle does not conflict with the keepout.
C5_TouchingIsFree ==
    \A k \in 1..Len(candidates) : \A j \in 1..Len(keepouts) :
        Touches(panelBounds(candidates[k]), keepoutBounds(keepouts[j]))
            => ~ panelConflictsWithKeepout(candidates[k], keepouts[j])

\* C5, as the code has it: a panel whose edge exactly touches the edge of
\* the keepout's buffered rectangle conflicts with the keepout (the test
\* for non-overlap is strict, so it fails for rectangles that touch).
C5_TouchingConflicts ==
    \A k \in 1..Len(candidates) : \A j \in 1..Len(keepouts) :
        Touches(panelBounds(candidates[k]), keepoutBounds(keepouts[j]))
            => panelConflictsWithKeepout(candidates[k], keepouts[j])

\* A generated panel touches the buffered rectangle of a keepout and has
\* been filtered out.
C5_Witness ==
    /\ JustGenerated
    /\ \E k \in 1..Len(candidates) : \E j \in 1..Len(keepouts) :
          /\ Touches(panelBounds(candidates[k]), keepoutBounds(keepouts[j]))
          /\ \A i \in 1..Len(panels) : panels[i].id # candidates[k].id

\* The indices of the candidates that conflict with no keepout of the list.
Free(panelList, keepoutList) ==
    {k \in 1..Len(panelList) :
        \A j \in 1..Len(keepoutList) :
            ~ panelConflictsWithKeepout(panelList[k], keepoutList[j])}

C7_Scenario ==
    /\ JustGenerated
    /\ roofBoundary = analyzeRoofCharacteristics(extractRoofData(HouseRoof))
    /\ panelSpecs = DefaultPanelSpecs
    /\ spacing = DefaultSpacing
    /\ keepouts = <<[type |-> "chimney",
                     position |-> roofBoundary.center,
                     size |-> [width |-> 2 * Scale, height |-> 2 * Scale],
                     buffer |-> 3 * Scale]>>

\* C7: in the scenario the layout has strictly fewer panels than the layout
\* of the same roof without obstacle, and the panels removed are exactly
\* those that overlap the 8 x 8 ft zone around the chimney.
C7_ObstacleExclusion ==
    C7_Scenario =>
        LET open == filterKeepoutConflicts(
                        LayoutFor(roofBoundary, panelSpecs, spacing), << >>)
        IN /\ Len(panels) < Len(open)
           /\ \A k \in 1..Len(open) :
                 (\E i \in 1..Len(panels) : panels[i] = open[k])
                    <=> ~ RectanglesOverlap(panelBounds(open[k]),
                                            ClaimedZone(keepouts[1]))

\* The efficiency of C9: rated x sunExposure x positionFactor, clamped to
\* [0.1, 1.0], whatever the sun exposure.
ClaimedEfficiency(roof, specs, x, y) ==
    LET bounds == calculateRoofBounds(roof.coordinates)
        distanceFromCenter ==
            Hypot(2 * x - bounds.west - bounds.east, 2 * y - bounds.north - bounds.south)
        maxDistance == Hypot(bounds.east - bounds.west, bounds.north - bounds.south)
        ratio == IF maxDistance = 0 THEN 0
                 ELSE FloorMulDiv(distanceFromCenter, Frac, maxDistance)
        positionFactor == Frac - ratio \div 10
        product == (((specs.efficiency * roof.sunExposure) \div Frac) * positionFactor) \div Frac
    IN IF product < Frac \div 10 THEN Frac \div 10
       ELSE IF product > Frac THEN Frac
       ELSE product

\* C9: every panel created by generatePanelLayout has the efficiency
\* clamp(rated x sunExposure x positionFactor, 0.1, 1.0), for every sun
\* exposure of the roof, zero and negative included.
C9_Efficiency ==
    JustGenerated =>
        \A k \in 1..Len(candidates) :
            candidates[k].efficiency =
                ClaimedEfficiency(roofBoundary, panelSpecs,
                                  candidates[k].position.lng, candidates[k].position.lat)

\* C10: the statistics track the panel list.  In every state panelCount is
\* the number of panels, totalPower the sum of their power and
\* averageEfficiency the mean of their efficiency (to the resolution of
\* 1/Frac), 0 without panels.
C10_StatsTrack ==
    LET n == Len(panels)
        power[i \in 0..n] == IF i = 0 THEN 0 ELSE power[i - 1] + panels[i].power
        eff[i \in 0..n] == IF i = 0 THEN 0 ELSE eff[i - 1] + panels[i].efficiency
    IN /\ stats.panelCount = n
       /\ stats.totalPower = power[n]
       /\ IF n = 0 THEN stats.averageEfficiency = 0
          ELSE /\ stats.averageEfficiency * n <= eff[n]
               /\ eff[n] < (stats.averageEfficiency + 1) * n

\* Statistics of a list of several panels that has been rotated since its
\* generation.
C10_Witness ==
    /\ stats.panelCount >= 2
    /\ stats.averageEfficiency > 0
    /\ \E k \in 1..Len(panels) : panels[k].azimuth # roofBoundary.azimuth

\* The vector of the edge from p to q in the coordinate plane.
EdgeVector(p, q) == [x |-> q.lng - p.lng, y |-> q.lat - p.lat]

\* The angle at curr between the edges to prev and to next exists (both
\* edges have a length) and is within 15 degrees of 90:
\* cos^2 < sin(15 deg)^2 = (2 - sqrt(3)) / 4.
WithinFifteenOfRight(prev, curr, next) ==
    LET u == EdgeVector(curr, prev)
        v == EdgeVector(curr, next)
        dot == u.x * v.x + u.y * v.y
        product == (u.x * u.x + u.y * u.y) * (v.x * v.x + v.y * v.y)
        rest == 2 * product - 4 * dot * dot
    IN /\ product > 0
       /\ rest > 0
       /\ 3 * product * product < rest * rest

\* The classification rule of C8.
ClaimedShape(coords) ==
    LET n == Len(coords)
    IN IF n < 3 THEN "unknown"
       ELSE IF n = 3 THEN "triangular"
       ELSE IF n > 4 THEN "complex"
       ELSE IF \A i \in 1..4 :
                  WithinFifteenOfRight(coords[((i + 2) % 4) + 1], coords[i],
                                       coords[(i % 4) + 1])
            THEN "rectangular"
            ELSE "quadrilateral"

\* C8: classifyRoofShape gives 'triangular' for 3 vertices, 'rectangular'
\* for 4 vertices whose four interior angles are all within 15 degrees of
\* 90, 'quadrilateral' for any other 4 vertices, 'complex' for more than 4
\* and 'unknown' for fewer than 3.
C8_Classification ==
    roofData.shape # "undefined" => roofData.shape = ClaimedShape(roofData.coordinates)

\* C11: round trip.  A step of loadProject restores the roof region, the
\* obstacle set, the panel spec and the spacing of the project it loads,
\* and the panel list it regenerates is the project's panel list.
C11_RoundTrip ==
    [][(\E draws \in MockDraws : LoadProject(draws)) =>
          /\ roofData' = project.roofData
          /\ keepouts' = project.keepouts
          /\ panelSpecs' = project.panelSpecs
          /\ spacing' = project.spacing
          /\ panels' = project.panels]_vars

\* The panel list is the layout of the boundary against the keepout list:
\* no panel conflicts with a keepout, and every panel that the strategy
\* places and that conflicts with no keepout is in the list.
LayoutAgainst(panelList, boundary, keepoutList, specs, space) ==
    /\ \A k \in 1..Len(panelList) : \A j \in 1..Len(keepoutList) :
          ~ panelConflictsWithKeepout(panelList[k], keepoutList[j])
    /\ boundary # NullRoof =>
          LET fresh == LayoutFor(boundary, specs, space)
          IN \A k \in Free(fresh, keepoutList) :
                \E i \in 1..Len(panelList) : panelList[i] = fresh[k]

\* C12: whenever the keepout list changes, the panel list of the state
\* reached is the layout generated against the new keepout list.
C12_KeepoutChangeRegenerates ==
    [][keepouts' # keepouts =>
          LayoutAgainst(panels', roofBoundary', keepouts', panelSpecs', spacing')]_vars

\* C13: a change of panel spec or spacing regenerates the layout.  In every
\* state every panel has the width, height and power of the current
\* panelSpecs, and the panels are panels of the layout that the current
\* panelSpecs and spacing give: the last generation used the current values
\* and every panel of the list stems from it.
C13_SpecChangeRegenerates ==
    /\ \A k \in 1..Len(panels) :
          /\ panels[k].width = panelSpecs.width
          /\ panels[k].height = panelSpecs.height
          /\ panels[k].power = panelSpecs.power
    /\ panels # << >> =>
          /\ candidates = LayoutFor(roofBoundary, panelSpecs, spacing)
          /\ \A k \in 1..Len(panels) :
                \E c \in 1..Len(candidates) : candidates[c].id = panels[k].id

\* Panels laid out under a panel spec and a spacing that are not those of
\* the constructor.
C13_Witness ==
    /\ panels # << >>
    /\ panelSpecs.width # DefaultPanelSpecs.width
    /\ spacing # DefaultSpacing

\* C14: within one generated layout the panel ids are unique: after
\* generatePanelLayout no two panels of the list have the same id, and no
\* two have the same (row, col) pair.
C14_UniqueIds ==
    JustGenerated =>
        \A i, j \in 1..Len(panels) :
            (panels[i].id = panels[j].id
               \/ (panels[i].row = panels[j].row /\ panels[i].col = panels[j].col))
            => i = j

\* A generated layout with panels that share a row and panels that share a
\* column index.
C14_Witness ==
    /\ JustGenerated
    /\ \E i, j \in 1..Len(panels) :
          i # j /\ panels[i].row = panels[j].row
    /\ \E i, j \in 1..Len(panels) :
          i # j /\ panels[i].col = panels[j].col

\* C15: rectangular strategy.  With panelsPerRow and panelsPerColumn as
\* generateRectangularLayout computes them, the layout has at most
\* panelsPerRow x panelsPerColumn panels, every panel has
\* 0 <= col < panelsPerRow and 0 <= row < panelsPerColumn, and the total
\* power of the N panels is N x the rated power; on the 40 x 30 ft roof with
\* the default spec and spacing panelsPerRow is 6 and panelsPerColumn 8.
C15_RectangularGrid ==
    (JustGenerated /\ roofBoundary.shape = "rectangular") =>
        LET bounds == calculateRoofBounds(roofBoundary.coordinates)
            perRow == panelsPerRow(bounds, panelSpecs, spacing)
            perColumn == panelsPerColumn(bounds, panelSpecs, spacing)
            n == Len(candidates)
        IN /\ Len(panels) <= n
           /\ n > 0 => (perRow > 0 /\ (n + perRow - 1) \div perRow <= perColumn)
           /\ \A k \in 1..n :
                 /\ 0 <= candidates[k].col /\ candidates[k].col < perRow
                 /\ 0 <= candidates[k].row /\ candidates[k].row < perColumn
           /\ SumPower(panels, 1) = Len(panels) * panelSpecs.power
           /\ (/\ roofBoundary.coordinates = HouseRoof.path
               /\ panelSpecs = DefaultPanelSpecs
               /\ spacing = DefaultSpacing)
                 => (perRow = 6 /\ perColumn = 8)

\* A rectangular roof laid out with several panels in several rows.
C15_Witness ==
    /\ JustGenerated
    /\ roofBoundary.shape = "rectangular"
    /\ \E k \in 1..Len(panels) : panels[k].row > 0 /\ panels[k].col > 0

\* The angular deviation of an azimuth from due south, in [0, 180].
DeviationFromSouth(azimuth) ==
    LET turn == (azimuth - 180) % 360
    IN IF turn <= 180 THEN turn ELSE 360 - turn

\* The azimuths that calculateAzimuth gives for the headings analysed.
AzimuthSamples == {JsMod(heading + 90, 360) : heading \in ClassifyHeadings}

\* C16: monotonic suitability.  With the area and the complexity of the
\* analysed roof held fixed, every azimuth that deviates more from due
\* south than the roof's own has a strictly smaller suitability, and every
\* azimuth that deviates less a strictly greater one.
C16_MonotonicSuitability ==
    roofData.shape # "undefined" =>
        \A other \in AzimuthSamples :
            LET there == calculateSuitability(roofData.area, other, roofData.complexity)
            IN /\ DeviationFromSouth(roofData.azimuth) < DeviationFromSouth(other)
                     => roofData.suitability > there
               /\ DeviationFromSouth(roofData.azimuth) > DeviationFromSouth(other)
                     => roofData.suitability < there

\* An analysed roof of the highest complexity and small area that faces
\* away from due south by a negative azimuth.
C16_Witness ==
    /\ roofData.shape = "complex"
    /\ roofData.complexity = Frac
    /\ roofData.area < 200
    /\ roofData.azimuth < 0

\* The suitability of C17.
ClaimedPenalty(azimuth) ==
    (DeviationFromSouth(azimuth) * 4 * (Frac \div 10)) \div 180

ClaimedSuitability(area, azimuth, complexity) ==
    LET raw == 8 * (Frac \div 10)
               - (IF area < 200 THEN 2 * (Frac \div 10) ELSE 0)
               - ClaimedPenalty(azimuth)
               - (complexity * 2) \div 10
    IN IF raw < 0 THEN 0 ELSE IF raw > Frac THEN Frac ELSE raw

\* C17: the suitability stored on the analysed roof is 0.8, minus 0.2 for an
\* area below 200, minus the azimuth penalty, minus complexity x 0.2,
\* clamped to [0, 1]; it lies in [0, 1] and the azimuth penalty lies in
\* [0, 0.4].
C17_SuitabilityRange ==
    roofData.shape # "undefined" =>
        /\ roofData.suitability
              = ClaimedSuitability(roofData.area, roofData.azimuth, roofData.complexity)
        /\ 0 <= roofData.suitability /\ roofData.suitability <= Frac
        /\ calculateAzimuthPenalty(roofData.azimuth) = ClaimedPenalty(roofData.azimuth)
        /\ 0 <= calculateAzimuthPenalty(roofData.azimuth)
        /\ calculateAzimuthPenalty(roofData.azimuth) <= 4 * (Frac \div 10)

\* An analysed roof at the lower end of the range: small, of the highest
\* complexity and facing due north.
C17_Witness ==
    /\ roofData.shape = "complex"
    /\ roofData.area < 200
    /\ roofData.azimuth = 0
    /\ roofData.suitability = 0

C19_EmptyLayout ==
    [][(/\ successive' >= 1
        /\ roofBoundary' # NullRoof
        /\ Free(candidates', keepouts') = {})
       => /\ panels' = << >>
          /\ stats'.panelCount = 0
          /\ stats'.totalPower = 0
          /\ stats'.averageEfficiency = 0]_vars

\* A layout whose candidates were all removed by the keepouts.
C19_Witness ==
    /\ JustGenerated
    /\ Len(candidates) > 0
    /\ panels = << >>
    /\ stats.panelCount = 0

\* A marker of a value that could not be computed is no ordinary number of
\* these fields: the complexity and the suitability are ratios within
\* [0, 1], and the sun exposure of an azimuth within (-360, 360) is within
\* [-2, 1].
Uncomputable(value) == value \notin (0 - 2 * Frac)..Frac

\* C20: malformed polygon.  Once a boundary with fewer than 3 points has
\* been analysed, its shape is 'unknown' and its complexity, suitability
\* and sun exposure are marked uncomputable instead of being ordinary
\* numbers.
C20_MalformedPolygon ==
    (roofData.shape # "undefined" /\ Len(roofData.coordinates) < 3)
    => /\ roofData.shape = "unknown"
       /\ Uncomputable(roofData.complexity)
       /\ Uncomputable(roofData.suitability)
       /\ Uncomputable(roofData.sunExposure)

\* C21: invalid input fails fast.  setPanelSpecs answers a negative panel
\* dimension with an error, and no layout is produced from it: no panel of
\* the list ever has a width or a height that is not positive.
C21_InvalidInputFailsFast ==
    \A k \in 1..Len(panels) :
        /\ panels[k].width > 0
        /\ panels[k].height > 0

C23_AzimuthRange ==
    /\ roofData # NullRoof => roofData.azimuth \in 0..359
    /\ \A k \in 1..Len(panels) : panels[k].azimuth \in 0..359

\* C24: pipeline order on a new boundary.  When handlePolygonComplete has
\* changed the boundary, the boundary carries the shape that the
\* classification gives to its own coordinates, the candidates are those
\* of the strategy of that shape, the panel list is the candidates after
\* the keepout filter, and the statistics are those of the filtered list
\* with the area of the new roof.
C24_PipelineOrder ==
    [][roofBoundary' # roofBoundary =>
          /\ roofBoundary'.shape = classifyRoofShape(roofBoundary'.coordinates)
          /\ candidates' = LayoutFor(roofBoundary', panelSpecs', spacing')
          /\ panels' = filterKeepoutConflicts(candidates', keepouts')
          /\ stats'.panelCount = Len(panels')
          /\ stats'.totalPower = SumPower(panels', 1)
          /\ stats'.roofArea = roofBoundary'.area]_vars

\* A triangular roof just drawn, laid out around its keepout.
C24_Witness ==
    /\ successive = 1
    /\ roofBoundary.shape = "triangular"
    /\ roofBoundary = roofData
    /\ stats.roofArea = roofBoundary.area
    /\ keepouts # << >>
    /\ panels # << >>

\* The triangle of C25: the base is the longest edge, the apex the
\* remaining vertex, and the budget of a row is
\* floor(maxPanelsInBase x (1 - row / numRows)).  rows are the rows whose
\* center line lies within the bounding box of the roof, and rowLat is the
\* latitude of that line.
Triangle(roof, specs, space) ==
    LET coords == roof.coordinates
        n == Len(coords)
        i == findLongestEdge(coords)
        start == coords[i]
        end == coords[(i % n) + 1]
        apex == coords[CHOOSE k \in 1..n : k \notin {i, (i % n) + 1}]
        bounds == calculateRoofBounds(coords)
        pitchY == specs.height + space.vertical
        numRows == LoopBound(calculateDistance((start.lng + end.lng) \div 2,
                                               (start.lat + end.lat) \div 2,
                                               apex.lng, apex.lat), pitchY)
        maxPanelsInBase ==
            LoopBound(calculateDistance(start.lng, start.lat, end.lng, end.lat),
                      specs.width + space.horizontal)
    IN [apex |-> apex,
        numRows |-> numRows,
        maxPanelsInBase |-> maxPanelsInBase,
        rows |-> 0..(Min(numRows,
                         InBox(bounds.north - bounds.south, specs.height \div 2, pitchY)) - 1),
        rowLat |-> [row \in 0..(Min(numRows,
                         InBox(bounds.north - bounds.south, specs.height \div 2, pitchY)) - 1)
                    |-> bounds.north - row * pitchY - specs.height \div 2]]

RowBudget(t, row) == FloorMulDiv(t.maxPanelsInBase, t.numRows - row, t.numRows)

\* The preconditions of C25: a layout just generated on a triangular roof
\* with positive panel dimensions and non-negative gaps.
TriangularLayout ==
    /\ JustGenerated
    /\ ~ looping
    /\ roofBoundary.shape = "triangular"
    /\ panelSpecs.width > 0 /\ panelSpecs.height > 0
    /\ spacing.horizontal >= 0 /\ spacing.vertical >= 0

\* C25: triangular strategy.  No row holds more panels than its budget
\* floor(maxPanelsInBase x (1 - row / numRows)), and of two rows the one
\* nearer to the apex never has the larger budget.
C25_TriangularBudget ==
    TriangularLayout =>
       LET t == Triangle(roofBoundary, panelSpecs, spacing)
       IN /\ \A row \in t.rows :
                Cardinality({k \in 1..Len(panels) : panels[k].row = row})
                   <= RowBudget(t, row)
          /\ \A k \in 1..Len(panels) : panels[k].row \in t.rows
          /\ \A near, far \in t.rows :
                Abs(t.rowLat[near] - t.apex.lat) < Abs(t.rowLat[far] - t.apex.lat)
                   => RowBudget(t, near) <= RowBudget(t, far)

\* C26: fallback strategy.  For a boundary whose shape is none of
\* 'rectangular', 'triangular' and 'complex' (a quadrilateral, an unknown
\* shape, a boundary without a shape), generatePanelLayout leaves exactly
\* the panel list of the rectangular strategy for the same boundary,
\* keepouts, specs and spacing.
C26_Fallback ==
    (/\ JustGenerated
     /\ ~ looping
     /\ roofBoundary.shape \notin {"rectangular", "triangular", "complex"})
    => /\ candidates = generateRectangularLayout(roofBoundary, panelSpecs, spacing)
       /\ panels = filterKeepoutConflicts(
                      generateRectangularLayout(roofBoundary, panelSpecs, spacing), keepouts)

\* A boundary without a shape, laid out with panels.
C26_Witness ==
    /\ JustGenerated
    /\ roofBoundary.shape = "undefined"
    /\ Len(panels) >= 2

\* C27: selection consistency.  selectedPanels holds exactly the panels of
\* the current list whose selected flag is true, each once, and no object
\* that is not in the current list.
C27_SelectionConsistent ==
    /\ \A i \in 1..Len(selectedPanels) :
          /\ selectedPanels[i].ref > 0
          /\ panels[selectedPanels[i].ref].selected
    /\ \A k \in 1..Len(panels) :
          panels[k].selected => Visits(k) = 1

\* C28: clearing is durable.  The statistics hold a roof area of 0 from
\* clearRoofDetection (and from the start) until handlePolygonComplete
\* supplies a new boundary, whose area is positive.  As long as they do,
\* the panel list is empty and the statistics count no panel, whatever
\* setPanelSpecs, setSpacing or generatePanelLayout were called since.
C28_ClearingIsDurable ==
    stats.roofArea = 0 =>
       /\ panels = << >>
       /\ stats.panelCount = 0

\* C29: termination.  generatePanelLayout returns for every roof boundary
\* and for every panelSpecs and spacing that setPanelSpecs and setSpacing
\* accept, also when a panel dimension plus its gap is zero or negative:
\* no call ever enters a loop that does not end.
C29_Terminates == ~ looping

\* C30: no overlap between panels.  In a layout that generatePanelLayout
\* has just produced with non-negative gaps, the rectangles (center +/-
\* half width, center +/- half height) of two distinct panels have
\* disjoint interiors, whatever the strategy.
C30_NoPanelOverlap ==
    (/\ JustGenerated
     /\ spacing.horizontal >= 0
     /\ spacing.vertical >= 0)
    => \A i, j \in 1..Len(panels) :
          i # j =>
             LET p == panelBounds(panels[i])
                 q == panelBounds(panels[j])
             IN \/ p.east <= q.west
                \/ q.east <= p.west
                \/ p.north <= q.south
                \/ q.north <= p.south
====
